---- MODULE Spec2Model ----
(***************************************************************************)
(* Supply-Demand GAP analysis with carry-forward inventory projection      *)
(* (src/sdr_tabs/gap_analysis.py), the period labels of the demand and     *)
(* supply tabs (src/sdr_tabs/demand_tab.py, supply_capability_tab.py) and  *)
(* the top customers by gross profit (src/data_processing.py).             *)
(*                                                                         *)
(* Strings are modelled as sequences of tokens (each token a TLA+ string:  *)
(* one character, or one literal the code inserts or removes as a whole,   *)
(* such as "Week " or " - "), so that formatting a date into a period      *)
(* label and parsing the label back into a sort key are two different      *)
(* computations.  Dates are <<year, month, day>>; NaT is the null date.    *)
(* Quantities are integers and the fulfilment rate is an exact fraction    *)
(* <<numerator, denominator>> in lowest terms.                             *)
(*                                                                         *)
(* Library behaviour is the behaviour of CPython 3 and pandas 2.x; in      *)
(* particular astype(str) of a nullable integer <NA> is the text "<NA>",   *)
(* while strftime of NaT is the missing value NaN.  The tables are sets of *)
(* rows: the engine groups and sums, so the order of the rows is           *)
(* immaterial, and two equal rows count as one row of twice the quantity.  *)
(***************************************************************************)
EXTENDS Integers, Sequences, FiniteSets, TLC

VARIABLES df_demand, df_supply, period_type, pc, all_periods, gap_df,
          show_shortage_only, gap_df_shown, pivot_gap,
          inv_df, sales_df, top_customers, df_summary

vars == <<df_demand, df_supply, period_type, pc, all_periods, gap_df,
          show_shortage_only, gap_df_shown, pivot_gap,
          inv_df, sales_df, top_customers, df_summary>>

(***************************************************************************)
(* Bounds of the model.                                                    *)
(***************************************************************************)
\* most rows of the demand table and the supply table together
MaxRows == 2
\* quantities of the input rows are 1..MaxQty
MaxQty == 2

\* the largest gross profit of one invoice or sales line
MaxGp == 2

(***************************************************************************)
(* Calendar arithmetic (datetime.date, proleptic Gregorian).               *)
(***************************************************************************)
NaT == <<0, 0, 0>>

IsLeap(y) == (y % 4 = 0) /\ ((y % 100 # 0) \/ (y % 400 = 0))

DaysInMonth(y, m) ==
    IF m = 2 THEN (IF IsLeap(y) THEN 29 ELSE 28)
    ELSE IF m \in {4, 6, 9, 11} THEN 30 ELSE 31

RECURSIVE DaysBeforeMonth(_, _)
DaysBeforeMonth(y, m) ==
    IF m = 1 THEN 0 ELSE DaysBeforeMonth(y, m - 1) + DaysInMonth(y, m - 1)

DaysBeforeYear(y) ==
    LET p == y - 1 IN 365 * p + (p \div 4) - (p \div 100) + (p \div 400)

\* date.toordinal(): 0001-01-01 is day 1 (a Monday)
ToOrdinal(d) == DaysBeforeYear(d[1]) + DaysBeforeMonth(d[1], d[2]) + d[3]

\* ordinal of the Monday of ISO week 1 of year y
IsoWeek1Monday(y) ==
    LET firstday     == ToOrdinal(<<y, 1, 1>>)
        firstweekday == (firstday + 6) % 7
        week1monday  == firstday - firstweekday
    IN  IF firstweekday > 3 THEN week1monday + 7 ELSE week1monday

\* date.isocalendar(): [year |-> ISO week-year, week |-> ISO week 1..53]
IsoCalendar(d) ==
    LET today == ToOrdinal(d)
        y     == d[1]
        w1    == IsoWeek1Monday(y)
    IN  IF today < w1
        THEN [year |-> y - 1, week |-> ((today - IsoWeek1Monday(y - 1)) \div 7) + 1]
        ELSE IF (today - w1) \div 7 >= 52 /\ today >= IsoWeek1Monday(y + 1)
             THEN [year |-> y + 1, week |-> 1]
             ELSE [year |-> y, week |-> ((today - w1) \div 7) + 1]

\* pd.Timestamp.max is 2262-04-11 23:47:16.854775807
TimestampMax == ToOrdinal(<<2262, 4, 11>>)

(***************************************************************************)
(* Strings as token sequences: str(), int(), zero padding, split, replace. *)
(***************************************************************************)
DigitChars == <<"0", "1", "2", "3", "4", "5", "6", "7", "8", "9">>

DigitSet == {DigitChars[i] : i \in 1..10}

DigitVal(c) == (CHOOSE i \in 1..10 : DigitChars[i] = c) - 1

MonthAbbr == <<"Jan", "Feb", "Mar", "Apr", "May", "Jun",
               "Jul", "Aug", "Sep", "Oct", "Nov", "Dec">>

\* str(n) for n >= 0
RECURSIVE Str(_)
Str(n) ==
    IF n < 10 THEN <<DigitChars[n + 1]>>
    ELSE Str(n \div 10) \o <<DigitChars[(n % 10) + 1]>>

\* "%0wd" % n
RECURSIVE ZeroPad(_, _)
ZeroPad(s, w) == IF Len(s) >= w THEN s ELSE ZeroPad(<<"0">> \o s, w)

IsDigits(s) == Len(s) > 0 /\ \A i \in 1..Len(s) : s[i] \in DigitSet

\* int(s) for a string of decimal digits
RECURSIVE ToInt(_)
ToInt(s) ==
    IF Len(s) = 0 THEN 0
    ELSE 10 * ToInt(SubSeq(s, 1, Len(s) - 1)) + DigitVal(s[Len(s)])

\* s.replace(tok, "")
Remove(s, tok) == SelectSeq(s, LAMBDA c : c # tok)

\* s.split(tok): the sequence of the parts of s between occurrences of tok
RECURSIVE Split(_, _)
Split(s, tok) ==
    IF \A i \in 1..Len(s) : s[i] # tok THEN <<s>>
    ELSE LET k == CHOOSE i \in 1..Len(s) :
                      s[i] = tok /\ \A j \in 1..(i - 1) : s[j] # tok
         IN  <<SubSeq(s, 1, k - 1)>> \o Split(SubSeq(s, k + 1, Len(s)), tok)

\* the missing value of an object column
NaN == <<"NaN">>

(***************************************************************************)
(* convert_to_period: the period label of a date.                          *)
(***************************************************************************)
PeriodTypes == {"Daily", "Weekly", "Monthly"}

\* UInt32 <NA> of isocalendar() of NaT, after astype(str)
NAStr == <<"<NA>">>

\* a faulty variant: the Weekly label carries the calendar year of the date
convert_to_period_calendar_year(d, ptype) ==
    IF ptype = "Daily" THEN
        IF d = NaT THEN NaN
        ELSE ZeroPad(Str(d[1]), 4) \o <<"-">> \o ZeroPad(Str(d[2]), 2)
             \o <<"-">> \o ZeroPad(Str(d[3]), 2)
    ELSE IF ptype = "Weekly" THEN
        LET week == IF d = NaT THEN NAStr ELSE Str(IsoCalendar(d).week)
            year == IF d = NaT THEN NAStr ELSE Str(d[1])
        IN  <<"Week ">> \o week \o <<" - ">> \o year
    ELSE
        IF d = NaT THEN NaN
        ELSE <<MonthAbbr[d[2]], " ">> \o ZeroPad(Str(d[1]), 4)

convert_to_period(d, ptype) ==
    IF ptype = "Daily" THEN
        IF d = NaT THEN NaN
        ELSE ZeroPad(Str(d[1]), 4) \o <<"-">> \o ZeroPad(Str(d[2]), 2)
             \o <<"-">> \o ZeroPad(Str(d[3]), 2)
    ELSE IF ptype = "Weekly" THEN
        LET week == IF d = NaT THEN NAStr ELSE Str(IsoCalendar(d).week)
            year == IF d = NaT THEN NAStr ELSE Str(IsoCalendar(d).year)
        IN  <<"Week ">> \o week \o <<" - ">> \o year
    ELSE
        IF d = NaT THEN NaN
        ELSE <<MonthAbbr[d[2]], " ">> \o ZeroPad(Str(d[1]), 4)

(***************************************************************************)
(* get_period_datetime: the sort key of a period label, as a day ordinal.  *)
(***************************************************************************)
\* _strptime._calc_julian_from_U_or_W with week_starts_Mon, then fromordinal
StrptimeYearWeekMonday(year, week) ==
    LET first         == ToOrdinal(<<year, 1, 1>>)
        first_weekday == (first + 6) % 7
        week_0_length == (7 - first_weekday) % 7
        julian        == IF week = 0 THEN 1 - first_weekday
                         ELSE 1 + week_0_length + 7 * (week - 1)
    IN  first + julian - 1

\* datetime.strptime(f'{year}-W{week}-1', "%Y-W%W-%w") succeeds
StrptimeAccepts(year, week) == year \in 1..9999 /\ week \in 0..53

ParseWeekly(period_str) ==
    LET parts == Split(period_str, " - ")
    IN  IF Len(parts) < 2 THEN [ok |-> FALSE, year |-> 0, week |-> 0]
        ELSE LET w == Remove(parts[1], "Week ")
                 y == parts[2]
             IN  IF IsDigits(w) /\ IsDigits(y)
                 THEN [ok |-> TRUE, year |-> ToInt(y), week |-> ToInt(w)]
                 ELSE [ok |-> FALSE, year |-> 0, week |-> 0]

\* pd.to_datetime("01 " + period_str, format="%d %b %Y")
ParseMonthly(period_str) ==
    LET s == <<"0", "1", " ">> \o period_str
    IN  IF /\ Len(s) = 9
           /\ IsDigits(SubSeq(s, 1, 2))
           /\ s[3] = " "
           /\ \E m \in 1..12 : MonthAbbr[m] = s[4]
           /\ s[5] = " "
           /\ IsDigits(SubSeq(s, 6, 9))
        THEN [ok |-> TRUE,
              date |-> <<ToInt(SubSeq(s, 6, 9)),
                         CHOOSE m \in 1..12 : MonthAbbr[m] = s[4],
                         ToInt(SubSeq(s, 1, 2))>>]
        ELSE [ok |-> FALSE, date |-> NaT]

\* pd.to_datetime(period_str, format="%Y-%m-%d")
ParseDaily(period_str) ==
    LET s == period_str
    IN  IF /\ Len(s) = 10
           /\ IsDigits(SubSeq(s, 1, 4)) /\ s[5] = "-"
           /\ IsDigits(SubSeq(s, 6, 7)) /\ s[8] = "-"
           /\ IsDigits(SubSeq(s, 9, 10))
           /\ ToInt(SubSeq(s, 6, 7)) \in 1..12
           /\ ToInt(SubSeq(s, 9, 10)) \in
                  1..DaysInMonth(ToInt(SubSeq(s, 1, 4)), ToInt(SubSeq(s, 6, 7)))
        THEN [ok |-> TRUE,
              date |-> <<ToInt(SubSeq(s, 1, 4)), ToInt(SubSeq(s, 6, 7)),
                         ToInt(SubSeq(s, 9, 10))>>]
        ELSE [ok |-> FALSE, date |-> NaT]

\* a faulty variant: a Monthly label is ordered by its month before its year
get_period_datetime_month_first(period_str, ptype) ==
    IF ptype = "Weekly" THEN
        LET p == ParseWeekly(period_str)
        IN  IF p.ok /\ StrptimeAccepts(p.year, p.week)
            THEN StrptimeYearWeekMonday(p.year, p.week)
            ELSE TimestampMax
    ELSE IF ptype = "Monthly" THEN
        LET p == ParseMonthly(period_str)
        IN  IF p.ok THEN p.date[2] * 10000 + p.date[1] ELSE TimestampMax
    ELSE IF ptype = "Daily" THEN
        LET p == ParseDaily(period_str)
        IN  IF p.ok THEN ToOrdinal(p.date) ELSE TimestampMax
    ELSE TimestampMax

get_period_datetime(period_str, ptype) ==
    IF ptype = "Weekly" THEN
        LET p == ParseWeekly(period_str)
        IN  IF p.ok /\ StrptimeAccepts(p.year, p.week)
            THEN StrptimeYearWeekMonday(p.year, p.week)
            ELSE TimestampMax
    ELSE IF ptype = "Monthly" THEN
        LET p == ParseMonthly(period_str)
        IN  IF p.ok THEN ToOrdinal(p.date) ELSE TimestampMax
    ELSE IF ptype = "Daily" THEN
        LET p == ParseDaily(period_str)
        IN  IF p.ok THEN ToOrdinal(p.date) ELSE TimestampMax
    ELSE TimestampMax

(***************************************************************************)
(* Input domains of the model.                                             *)
(***************************************************************************)
\* (pt_code, product_name, package_size, standard_uom); the first two keys
\* share their pt_code
Products == {<<1, 1, 1, 1>>, <<1, 2, 1, 1>>, <<2, 1, 1, 1>>}

\* Mon 2020-12-21 (ISO week 52 of 2020), Sun 2021-01-03 (ISO week 53 of
\* 2020), Mon 2021-01-04 (ISO week 1 of 2021), and the null date
Dates == {<<2020, 12, 21>>, <<2021, 1, 3>>, <<2021, 1, 4>>, NaT}

Quantities == 1..MaxQty

DemandRows ==
    [pt_code : {k[1] : k \in Products}, product_name : {k[2] : k \in Products},
     package_size : {k[3] : k \in Products}, standard_uom : {k[4] : k \in Products},
     etd : Dates, demand_quantity : Quantities]

SupplyRows ==
    [pt_code : {k[1] : k \in Products}, product_name : {k[2] : k \in Products},
     package_size : {k[3] : k \in Products}, standard_uom : {k[4] : k \in Products},
     date_ref : Dates, quantity : Quantities]

ProductKey(r) == <<r.pt_code, r.product_name, r.package_size, r.standard_uom>>

(***************************************************************************)
(* Helpers: sums, orderings, exact fractions.                              *)
(***************************************************************************)
RECURSIVE SumOf(_, _)
SumOf(S, f) ==
    IF S = {} THEN 0
    ELSE LET x == CHOOSE x \in S : TRUE IN f[x] + SumOf(S \ {x}, f)

Abs(n) == IF n < 0 THEN -n ELSE n

Max(a, b) == IF a >= b THEN a ELSE b

RECURSIVE GCD(_, _)
GCD(a, b) == IF b = 0 THEN a ELSE GCD(b, a % b)

\* n / d (d > 0) in lowest terms
Frac(n, d) ==
    LET g == GCD(Abs(n), d) IN IF g = 0 THEN <<0, 1>> ELSE <<n \div g, d \div g>>

FracTimes(f, k) == Frac(f[1] * k, f[2])

\* tuples of integers in lexicographic order
RECURSIVE TupleLess(_, _)
TupleLess(a, b) ==
    IF Len(a) = 0 \/ Len(b) = 0 THEN Len(a) < Len(b)
    ELSE IF a[1] # b[1] THEN a[1] < b[1]
    ELSE TupleLess(Tail(a), Tail(b))

\* the elements of a set of integer tuples in ascending order
RECURSIVE SortedTuples(_)
SortedTuples(S) ==
    IF S = {} THEN <<>>
    ELSE LET m == CHOOSE x \in S : \A y \in S \ {x} : TupleLess(x, y)
         IN  <<m>> \o SortedTuples(S \ {m})

\* DataFrame.drop_duplicates(): the first occurrence of each row is kept
RECURSIVE DropDuplicates(_)
DropDuplicates(s) ==
    IF Len(s) = 0 THEN <<>>
    ELSE LET init == DropDuplicates(SubSeq(s, 1, Len(s) - 1))
             last == s[Len(s)]
         IN  IF \E i \in 1..Len(init) : init[i] = last THEN init
             ELSE Append(init, last)

\* list(a_set): the elements in any order (the set holds strings, whose
\* iteration order follows their per-process randomised hash)
RECURSIVE Enumerations(_)
Enumerations(S) ==
    IF S = {} THEN {<<>>}
    ELSE UNION {{<<x>> \o e : e \in Enumerations(S \ {x})} : x \in S}

\* sorted(seq, key=...): stable, ascending by key (key is a function here)
RECURSIVE Sorted(_, _)
Sorted(seq, key) ==
    IF Len(seq) = 0 THEN <<>>
    ELSE LET init == Sorted(SubSeq(seq, 1, Len(seq) - 1), key)
             x    == seq[Len(seq)]
             \* x goes after every element whose key is <= key(x)
             n    == Cardinality({i \in 1..Len(init) : key[init[i]] <= key[x]})
         IN  SubSeq(init, 1, n) \o <<x>> \o SubSeq(init, n + 1, Len(init))

(***************************************************************************)
(* calculate_gap_with_carry_forward                                        *)
(***************************************************************************)
\* a faulty variant: df_d names the caller's table itself
no_copy(df) == [rows |-> df, is_argument |-> TRUE]

\* df.copy(): a new table with the rows of df, which is not the caller's
copy(df) == [rows |-> df, is_argument |-> FALSE]

\* df_d["period"] = convert_to_period(df_d["etd"], period_type): the rows
\* with the new column
assign_period_demand(rows, ptype) ==
    {[pt_code |-> r.pt_code, product_name |-> r.product_name,
      package_size |-> r.package_size, standard_uom |-> r.standard_uom,
      etd |-> r.etd, demand_quantity |-> r.demand_quantity,
      period |-> convert_to_period(r.etd, ptype)] : r \in rows}

assign_period_supply(rows, ptype) ==
    {[pt_code |-> r.pt_code, product_name |-> r.product_name,
      package_size |-> r.package_size, standard_uom |-> r.standard_uom,
      date_ref |-> r.date_ref, quantity |-> r.quantity,
      period |-> convert_to_period(r.date_ref, ptype)] : r \in rows}

\* the caller's table after the engine assigned to the table it works on
ArgumentAfterCall(df, assigned) == IF df.is_argument THEN assigned ELSE df.rows

\* df.groupby([pt_code, product_name, package_size, standard_uom, period])
\*   .agg(sum).reset_index(); rows whose period is NaN form no group
demand_grouped(df_d, ptype) ==
    LET period(r) == convert_to_period(r.etd, ptype)
        groups == {<<ProductKey(r), period(r)>> : r \in {r \in df_d : period(r) # NaN}}
        qty == [r \in df_d |-> r.demand_quantity]
    IN  {[key |-> g[1], pt_code |-> g[1][1], period |-> g[2],
          total_demand_qty |->
              SumOf({r \in df_d : ProductKey(r) = g[1] /\ period(r) = g[2]}, qty)]
         : g \in groups}

supply_grouped(df_s, ptype) ==
    LET period(r) == convert_to_period(r.date_ref, ptype)
        groups == {<<ProductKey(r), period(r)>> : r \in {r \in df_s : period(r) # NaN}}
        qty == [r \in df_s |-> r.quantity]
    IN  {[key |-> g[1], pt_code |-> g[1][1], period |-> g[2],
          total_supply_qty |->
              SumOf({r \in df_s : ProductKey(r) = g[1] /\ period(r) = g[2]}, qty)]
         : g \in groups}

\* a faulty variant: the axis is built from the demand periods only
all_periods_raw_demand_only(dg, sg) == {g.period : g \in dg}

all_periods_raw(dg, sg) == {g.period : g \in dg} \cup {g.period : g \in sg}

\* a faulty variant: the sort fails when there is no label to sort
SortPeriods_needs_label(raw, ptype) ==
    LET key == [x \in raw |-> get_period_datetime(x, ptype)]
    IN  IF raw = {} THEN {} ELSE {Sorted(e, key) : e \in Enumerations(raw)}

\* the period axes the sort can return, one for each enumeration of the set
SortPeriods(raw, ptype) ==
    LET key == [x \in raw |-> get_period_datetime(x, ptype)]
    IN  {Sorted(e, key) : e \in Enumerations(raw)}

\* pd.concat([demand keys, supply keys]).drop_duplicates(); each grouped
\* table is in ascending key order
all_keys(dg, sg) ==
    DropDuplicates(SortedTuples({g.key : g \in dg}) \o SortedTuples({g.key : g \in sg}))

\* demand_grouped[(pt_code == pt_code) & (period == period)][total].sum()
DemandIn(dg, key, period) ==
    LET total == [g \in dg |-> g.total_demand_qty]
    IN  SumOf({g \in dg : g.pt_code = key[1] /\ g.period = period}, total)

SupplyIn(sg, key, period) ==
    LET total == [g \in sg |-> g.total_supply_qty]
    IN  SumOf({g \in sg : g.pt_code = key[1] /\ g.period = period}, total)

\* a faulty variant: the carried inventory is left out of the available quantity
total_available_no_carry(carry_forward_qty, supply) == supply

total_available(carry_forward_qty, supply) == carry_forward_qty + supply

gap(available, demand) == available - demand

\* a faulty variant: the rate is capped at 100
fulfill_rate_capped(available, demand) ==
    IF demand > 0 /\ available < demand
    THEN FracTimes(Frac(available, demand), 100) ELSE <<100, 1>>

\* a faulty variant: the rate is a ratio, not a percentage
fulfill_rate_ratio(available, demand) ==
    IF demand > 0 THEN Frac(available, demand) ELSE <<100, 1>>

fulfill_rate(available, demand) ==
    IF demand > 0 THEN FracTimes(Frac(available, demand), 100) ELSE <<100, 1>>

\* a faulty variant: a gap of exactly 0 counts as a shortage
status_strict(g) == IF g > 0 THEN "Fullfilled" ELSE "Shortage"

status(g) == IF g >= 0 THEN "Fullfilled" ELSE "Shortage"

\* a faulty variant: a deficit is carried forward as negative inventory
next_carry_forward_debt(g) == g

\* a faulty variant: nothing is carried forward
next_carry_forward_none(g) == 0

next_carry_forward(g) == Max(0, g)

GapRow(key, period, carry_forward_qty, dg, sg) ==
    LET demand == DemandIn(dg, key, period)
        supply == SupplyIn(sg, key, period)
        avail  == total_available(carry_forward_qty, supply)
        g      == gap(avail, demand)
    IN  [pt_code |-> key[1], product_name |-> key[2], package_size |-> key[3],
         standard_uom |-> key[4], period |-> period,
         begin_inventory |-> carry_forward_qty,
         supply_in_period |-> supply,
         total_available |-> avail,
         total_demand_qty |-> demand,
         gap_quantity |-> g,
         fulfillment_rate_percent |-> fulfill_rate(avail, demand),
         fulfillment_status |-> status(g)]

\* a faulty variant: a product gets rows only for the periods in which it
\* has demand or supply
RECURSIVE ScanPeriods_active_only(_, _, _, _, _, _)
ScanPeriods_active_only(key, periods, i, carry_forward_qty, dg, sg) ==
    IF i > Len(periods) THEN <<>>
    ELSE LET row == GapRow(key, periods[i], carry_forward_qty, dg, sg)
             active == \/ \E g \in dg : g.key = key /\ g.period = periods[i]
                       \/ \E g \in sg : g.key = key /\ g.period = periods[i]
         IN  (IF active THEN <<row>> ELSE <<>>)
             \o ScanPeriods_active_only(key, periods, i + 1,
                                        next_carry_forward(row.gap_quantity), dg, sg)

\* the inner loop over the periods of the axis, from position i
RECURSIVE ScanPeriods(_, _, _, _, _, _)
ScanPeriods(key, periods, i, carry_forward_qty, dg, sg) ==
    IF i > Len(periods) THEN <<>>
    ELSE LET row == GapRow(key, periods[i], carry_forward_qty, dg, sg)
         IN  <<row>> \o ScanPeriods(key, periods, i + 1,
                                    next_carry_forward(row.gap_quantity), dg, sg)

\* the outer loop over the product keys, from position k
RECURSIVE ScanKeys(_, _, _, _, _)
ScanKeys(keys, k, periods, dg, sg) ==
    IF k > Len(keys) THEN <<>>
    ELSE ScanPeriods(keys[k], periods, 1, 0, dg, sg)
         \o ScanKeys(keys, k + 1, periods, dg, sg)

(***************************************************************************)
(* The GAP pivot of show_gap_analysis_tab: a table with one line for each  *)
(* (product_name, pt_code) and one column for each period.                 *)
(***************************************************************************)
\* the order of Python strings (by code point), on the pieces of text that
\* the labels and cells are made of
TextCode ==
    [c \in {" ", " - ", ",", "-", "."} \cup DigitSet \cup {"<NA>", "NaN", "Week "}
           \cup {MonthAbbr[m] : m \in 1..12} |->
        IF c = " " THEN 1 ELSE IF c = " - " THEN 2 ELSE IF c = "," THEN 3
        ELSE IF c = "-" THEN 4 ELSE IF c = "." THEN 5
        ELSE IF c \in DigitSet THEN 10 + DigitVal(c)
        ELSE IF c = "<NA>" THEN 20
        ELSE IF c = "Apr" THEN 31 ELSE IF c = "Aug" THEN 32 ELSE IF c = "Dec" THEN 33
        ELSE IF c = "Feb" THEN 34 ELSE IF c = "Jan" THEN 35 ELSE IF c = "Jul" THEN 36
        ELSE IF c = "Jun" THEN 37 ELSE IF c = "Mar" THEN 38 ELSE IF c = "May" THEN 39
        ELSE IF c = "NaN" THEN 40 ELSE IF c = "Nov" THEN 41 ELSE IF c = "Oct" THEN 42
        ELSE IF c = "Sep" THEN 43 ELSE 50]

RECURSIVE TextLess(_, _)
TextLess(a, b) ==
    IF Len(a) = 0 \/ Len(b) = 0 THEN Len(a) < Len(b)
    ELSE IF a[1] # b[1] THEN TextCode[a[1]] < TextCode[b[1]]
    ELSE TextLess(Tail(a), Tail(b))

\* sorted(a set of strings)
RECURSIVE SortedText(_)
SortedText(S) ==
    IF S = {} THEN <<>>
    ELSE LET m == CHOOSE x \in S : \A y \in S \ {x} : TextLess(x, y)
         IN  <<m>> \o SortedText(S \ {m})

\* no pivot has been built
NoPivot == [index |-> {}, period_cols |-> <<>>, cells |-> <<>>]

\* groupby([product_name, pt_code, period]).agg(sum).reset_index()
\*   .pivot(index=[product_name, pt_code], columns=period).fillna(0)
\*   .reset_index(): the period columns come out in string order, and a
\* (line, period) without a row holds 0
pivot(df) ==
    LET index   == {<<df[i].product_name, df[i].pt_code>> : i \in 1..Len(df)}
        periods == {df[i].period : i \in 1..Len(df)}
        gaps    == [i \in 1..Len(df) |-> df[i].gap_quantity]
    IN  [index       |-> index,
         period_cols |-> SortedText(periods),
         cells       |-> [c \in index \X periods |->
                             SumOf({i \in 1..Len(df) :
                                       /\ <<df[i].product_name, df[i].pt_code>> = c[1]
                                       /\ df[i].period = c[2]}, gaps)]]

\* safe_parse_week as one number: (year, week) pairs compare like
\* 100 * year + week for week < 100; (9999, 99) for a label it cannot parse
safe_parse_week(x) ==
    LET p == ParseWeekly(x)
    IN  IF p.ok THEN 100 * p.year + p.week ELSE 100 * 9999 + 99

sort_period_columns(pv, ptype) ==
    LET period_cols == pv.period_cols
        labels      == {period_cols[i] : i \in 1..Len(period_cols)}
        sorted_periods ==
            IF ptype = "Weekly"
            THEN Sorted(period_cols, [x \in labels |-> safe_parse_week(x)])
            ELSE IF ptype = "Monthly"
            THEN Sorted(period_cols,
                        [x \in labels |-> IF ParseMonthly(x).ok
                                          THEN ToOrdinal(ParseMonthly(x).date)
                                          ELSE TimestampMax])
            ELSE SortedText(labels)
    IN  [pv EXCEPT !.period_cols = sorted_periods]

\* pivot_gap[pivot_gap.iloc[:, 2:].apply(lambda row: any(row < 0), axis=1)]
keep_shortage_rows(pv, checkbox) ==
    IF ~checkbox THEN pv
    ELSE LET kept == {k \in pv.index :
                         \E i \in 1..Len(pv.period_cols) :
                             pv.cells[<<k, pv.period_cols[i]>>] < 0}
         IN  [index       |-> kept,
              period_cols |-> pv.period_cols,
              cells       |-> [c \in {c \in DOMAIN pv.cells : c[1] \in kept} |->
                                  pv.cells[c]]]

\* the digits of an integer part with "," between groups of three
RECURSIVE GroupThousands(_)
GroupThousands(digits) ==
    IF Len(digits) <= 3 THEN digits
    ELSE GroupThousands(SubSeq(digits, 1, Len(digits) - 3)) \o <<",">>
         \o SubSeq(digits, Len(digits) - 2, Len(digits))

\* f"{x:,.1f}" for a whole number x
format_cell(x) ==
    (IF x < 0 THEN <<"-">> ELSE <<>>) \o GroupThousands(Str(Abs(x))) \o <<".", "0">>

\* pivot_gap.iloc[:, 2:].applymap(lambda x: f"{x:,.1f}")
format_cells(pv) ==
    [pv EXCEPT !.cells = [c \in DOMAIN pv.cells |-> format_cell(pv.cells[c])]]

(***************************************************************************)
(* data_processing: the top customers by gross profit.                     *)
(***************************************************************************)
Customers == {"A", "B", "C"}

GpValues == (0 - 1)..MaxGp

\* the values of top_percent: a half, the default 0.8, and the whole
TopPercents == {<<1, 2>>, <<4, 5>>, <<1, 1>>}

NotCalled == [called |-> "none", top_percent |-> <<0, 1>>, rows |-> <<>>]

\* float division n / d on a numeric column: a fraction in lowest terms
\* with a positive denominator, or inf, -inf, nan when d is 0
Divide(n, d) ==
    IF d = 0 THEN (IF n > 0 THEN <<"inf">> ELSE IF n < 0 THEN <<"-inf">> ELSE <<"nan">>)
    ELSE IF d > 0 THEN Frac(n, d) ELSE Frac(0 - n, 0 - d)

\* a faulty variant: a cumulative share equal to top_percent counts as well
GreaterOrEqual(x, top_percent) ==
    IF x = <<"inf">> THEN TRUE
    ELSE IF x \in {<<"-inf">>, <<"nan">>} THEN FALSE
    ELSE x[1] * top_percent[2] >= top_percent[1] * x[2]

\* df["cumulative_percent"] > top_percent, for one value
Greater(x, top_percent) ==
    IF x = <<"inf">> THEN TRUE
    ELSE IF x \in {<<"-inf">>, <<"nan">>} THEN FALSE
    ELSE x[1] * top_percent[2] > top_percent[1] * x[2]

\* x * 100
Times100(x) == IF Len(x) = 1 THEN x ELSE FracTimes(x, 100)

\* groupby("customer").sum(): the total of each customer (gp gives the
\* gross profit of a line)
CustomerTotals(df, gp) ==
    [c \in {r.customer : r \in df} |-> SumOf({r \in df : r.customer = c}, gp)]

\* sort_values(ascending=False): the customers in an order of descending
\* total; customers with equal totals come in any order
SortDescending(totals) ==
    {e \in Enumerations(DOMAIN totals) :
        \A i, j \in 1..Len(e) : i < j => totals[e[i]] >= totals[e[j]]}

\* cumsum() of the totals in the order e, up to position i
CumSum(totals, e, i) == SumOf({e[j] : j \in 1..i}, totals)

\* the rows up to and including the first whose cumulative share exceeds
\* top_percent, or all rows when there is none, with the columns renamed
\* and GP_Percent added
TopRows(totals, e, top_percent) ==
    LET total_gp == SumOf(DOMAIN totals, totals)
        cumulative_percent == [i \in 1..Len(e) |-> Divide(CumSum(totals, e, i), total_gp)]
        exceed == {i \in 1..Len(e) : Greater(cumulative_percent[i], top_percent)}
        last == IF exceed = {} THEN Len(e)
                ELSE CHOOSE i \in exceed : \A j \in exceed : i <= j
    IN  [i \in 1..last |->
            [Customer           |-> e[i],
             GrossProfit        |-> totals[e[i]],
             cumulative_gp      |-> CumSum(totals, e, i),
             cumulative_percent |-> cumulative_percent[i],
             GP_Percent         |-> Times100(Divide(totals[e[i]], total_gp))]]

\* the tables that the function can return
prepare_top_customers_by_gp(df, top_percent) ==
    LET customer_gp == CustomerTotals(df, [r \in df |-> r.invoiced_gross_profit_usd])
    IN  {TopRows(customer_gp, e, top_percent) : e \in SortDescending(customer_gp)}

prepare_salesperson_top_customers_by_gp(df, top_percent) ==
    LET totals == CustomerTotals(df, [r \in df |-> r.gross_profit_by_split_usd])
    IN  {TopRows(totals, e, top_percent) : e \in SortDescending(totals)}

(***************************************************************************)
(* The period column of the grouped summaries of the demand tab and of     *)
(* the supply tab.                                                         *)
(***************************************************************************)
NoSummary == [tab |-> "none", period |-> "Monthly", rows |-> {}]

\* show_grouped_demand_summary: the label of an etd
demand_tab_period(d, period) ==
    IF period = "Daily" THEN
        IF d = NaT THEN NaN
        ELSE ZeroPad(Str(d[1]), 4) \o <<"-">> \o ZeroPad(Str(d[2]), 2)
             \o <<"-">> \o ZeroPad(Str(d[3]), 2)
    ELSE IF period = "Weekly" THEN
        \* f"Week {w:02}" + " - " + year.astype(str)
        LET week == IF d = NaT THEN NAStr ELSE ZeroPad(Str(IsoCalendar(d).week), 2)
            year == IF d = NaT THEN NAStr ELSE Str(IsoCalendar(d).year)
        IN  <<"Week ">> \o week \o <<" - ">> \o year
    ELSE
        IF d = NaT THEN NaN
        ELSE <<MonthAbbr[d[2]], " ">> \o ZeroPad(Str(d[1]), 4)

\* show_grouped_supply_summary: the label of a date_ref
supply_tab_period(d, period) ==
    IF period = "Daily" THEN
        IF d = NaT THEN NaN
        ELSE ZeroPad(Str(d[1]), 4) \o <<"-">> \o ZeroPad(Str(d[2]), 2)
             \o <<"-">> \o ZeroPad(Str(d[3]), 2)
    ELSE IF period = "Weekly" THEN
        LET week == IF d = NaT THEN NAStr ELSE ZeroPad(Str(IsoCalendar(d).week), 2)
            year == IF d = NaT THEN NAStr ELSE Str(IsoCalendar(d).year)
        IN  <<"Week ">> \o week \o <<" - ">> \o year
    ELSE
        IF d = NaT THEN NaN
        ELSE <<MonthAbbr[d[2]], " ">> \o ZeroPad(Str(d[1]), 4)

(***************************************************************************)
(* The state machine: the caller fills the two tables, then calls the      *)
(* engine with a granularity.                                              *)
(***************************************************************************)
Init ==
    /\ df_demand = {}
    /\ df_supply = {}
    /\ period_type = "Monthly"
    /\ pc = "input"
    /\ all_periods = <<>>
    /\ gap_df = <<>>
    /\ show_shortage_only = TRUE
    /\ gap_df_shown = <<>>
    /\ pivot_gap = NoPivot
    /\ inv_df = {}
    /\ sales_df = {}
    /\ top_customers = NotCalled
    /\ df_summary = NoSummary

AddDemand ==
    /\ pc = "input"
    /\ Cardinality(df_demand) + Cardinality(df_supply) < MaxRows
    /\ \E r \in DemandRows :
           /\ ProductKey(r) \in Products
           /\ df_demand' = df_demand \cup {r}
    /\ UNCHANGED <<df_supply, period_type, pc, all_periods, gap_df,
                   show_shortage_only, gap_df_shown, pivot_gap,
                   inv_df, sales_df, top_customers,
                   df_summary>>

AddSupply ==
    /\ pc = "input"
    /\ Cardinality(df_demand) + Cardinality(df_supply) < MaxRows
    /\ \E r \in SupplyRows :
           /\ ProductKey(r) \in Products
           /\ df_supply' = df_supply \cup {r}
    /\ UNCHANGED <<df_demand, period_type, pc, all_periods, gap_df,
                   show_shortage_only, gap_df_shown, pivot_gap,
                   inv_df, sales_df, top_customers,
                   df_summary>>

\* gap_df = calculate_gap_with_carry_forward(df_demand, df_supply, ptype)
CalculateAs(ptype) ==
    /\ pc = "input"
    /\ LET df_d == copy(df_demand)
           df_s == copy(df_supply)
           dg   == demand_grouped(df_d.rows, ptype)
           sg   == supply_grouped(df_s.rows, ptype)
       IN  /\ \E axis \in SortPeriods(all_periods_raw(dg, sg), ptype) :
                  /\ all_periods' = axis
                  /\ gap_df' = ScanKeys(all_keys(dg, sg), 1, axis, dg, sg)
           /\ df_demand' =
                  ArgumentAfterCall(df_d, assign_period_demand(df_d.rows, ptype))
           /\ df_supply' =
                  ArgumentAfterCall(df_s, assign_period_supply(df_s.rows, ptype))
    /\ period_type' = ptype
    /\ pc' = "returned"
    /\ UNCHANGED <<show_shortage_only, gap_df_shown, pivot_gap,
                   inv_df, sales_df, top_customers,
                   df_summary>>

Calculate == \E ptype \in PeriodTypes : CalculateAs(ptype)

\* the columns of pd.DataFrame(results): a table made of no rows has none
GapColumns ==
    {"pt_code", "product_name", "package_size", "standard_uom", "period",
     "begin_inventory", "supply_in_period", "total_available",
     "total_demand_qty", "gap_quantity", "fulfillment_rate_percent",
     "fulfillment_status"}

Columns(results) == IF Len(results) = 0 THEN {} ELSE GapColumns

\* a faulty variant: rows that just meet their demand are kept as well
ShortageOrExact(df) == SelectSeq(df, LAMBDA row : row.gap_quantity <= 0)

\* gap_df[gap_df["gap_quantity"] < 0]
ShortageOnly(df) == SelectSeq(df, LAMBDA row : row.gap_quantity < 0)

\* show_gap_analysis_tab after the engine returned: the optional shortage
\* filter, the totals and the detail table; reading a column the table
\* does not have raises KeyError
ShowGapDetails(checkbox) ==
    /\ pc = "returned"
    /\ show_shortage_only' = checkbox
    /\ IF {"gap_quantity", "pt_code"} \subseteq Columns(gap_df)
       THEN LET shown == IF checkbox THEN ShortageOnly(gap_df) ELSE gap_df
            IN  /\ gap_df_shown' = shown
                /\ pivot_gap' = format_cells(
                                    keep_shortage_rows(
                                        sort_period_columns(pivot(shown), period_type),
                                        checkbox))
                /\ pc' = "shown"
       ELSE /\ gap_df_shown' = <<>>
            /\ pivot_gap' = NoPivot
            /\ pc' = "raised"
    /\ UNCHANGED <<df_demand, df_supply, period_type, all_periods, gap_df,
                   inv_df, sales_df, top_customers,
                   df_summary>>

ShowDetails == \E checkbox \in BOOLEAN : ShowGapDetails(checkbox)

Next == AddDemand \/ AddSupply \/ Calculate \/ ShowDetails

Spec == Init /\ [][Next]_vars

(***************************************************************************)
(* The engine called on tables of one product whose quantities have any    *)
(* sign (the tables of the tab hold quantities >= 0 by the data contract;  *)
(* the function itself accepts any numbers).                               *)
(***************************************************************************)
AnyQuantities == (0 - MaxQty)..MaxQty

OneProduct == <<1, 1, 1, 1>>

AddDemandAnyQty ==
    /\ pc = "input"
    /\ Cardinality(df_demand) + Cardinality(df_supply) < MaxRows + 1
    /\ \E d \in Dates \ {NaT}, q \in AnyQuantities :
           df_demand' = df_demand \cup
               {[pt_code |-> OneProduct[1], product_name |-> OneProduct[2],
                 package_size |-> OneProduct[3], standard_uom |-> OneProduct[4],
                 etd |-> d, demand_quantity |-> q]}
    /\ UNCHANGED <<df_supply, period_type, pc, all_periods, gap_df,
                   show_shortage_only, gap_df_shown, pivot_gap,
                   inv_df, sales_df, top_customers,
                   df_summary>>

AddSupplyAnyQty ==
    /\ pc = "input"
    /\ Cardinality(df_demand) + Cardinality(df_supply) < MaxRows + 1
    /\ \E d \in Dates \ {NaT}, q \in AnyQuantities :
           df_supply' = df_supply \cup
               {[pt_code |-> OneProduct[1], product_name |-> OneProduct[2],
                 package_size |-> OneProduct[3], standard_uom |-> OneProduct[4],
                 date_ref |-> d, quantity |-> q]}
    /\ UNCHANGED <<df_demand, period_type, pc, all_periods, gap_df,
                   show_shortage_only, gap_df_shown, pivot_gap,
                   inv_df, sales_df, top_customers,
                   df_summary>>

NextAnyQty == AddDemandAnyQty \/ AddSupplyAnyQty \/ Calculate

SpecAnyQty == Init /\ [][NextAnyQty]_vars

(***************************************************************************)
(* The engine called on tables of one product whose dates range over       *)
(* three years: year ends, a leap day, month names out of alphabetical     *)
(* order, and days on both sides of an ISO week-year boundary.             *)
(***************************************************************************)
WideDates ==
    {<<2019, 12, 30>>, <<2019, 12, 31>>, <<2020, 1, 1>>, <<2020, 1, 5>>,
     <<2020, 1, 6>>, <<2020, 2, 29>>, <<2020, 4, 15>>, <<2020, 9, 30>>,
     <<2020, 10, 1>>, <<2020, 12, 31>>, <<2021, 1, 1>>, <<2021, 1, 3>>,
     <<2021, 1, 4>>, <<2021, 4, 15>>, NaT}

AddDemandDated ==
    /\ pc = "input"
    /\ df_summary = NoSummary
    /\ Cardinality(df_demand) + Cardinality(df_supply) < MaxRows + 1
    /\ \E d \in WideDates :
           df_demand' = df_demand \cup
               {[pt_code |-> OneProduct[1], product_name |-> OneProduct[2],
                 package_size |-> OneProduct[3], standard_uom |-> OneProduct[4],
                 etd |-> d, demand_quantity |-> 1]}
    /\ UNCHANGED <<df_supply, period_type, pc, all_periods, gap_df,
                   show_shortage_only, gap_df_shown, pivot_gap,
                   inv_df, sales_df, top_customers,
                   df_summary>>

AddSupplyDated ==
    /\ pc = "input"
    /\ df_summary = NoSummary
    /\ Cardinality(df_demand) + Cardinality(df_supply) < MaxRows + 1
    /\ \E d \in WideDates :
           df_supply' = df_supply \cup
               {[pt_code |-> OneProduct[1], product_name |-> OneProduct[2],
                 package_size |-> OneProduct[3], standard_uom |-> OneProduct[4],
                 date_ref |-> d, quantity |-> 1]}
    /\ UNCHANGED <<df_demand, period_type, pc, all_periods, gap_df,
                   show_shortage_only, gap_df_shown, pivot_gap,
                   inv_df, sales_df, top_customers,
                   df_summary>>

NextDated == AddDemandDated \/ AddSupplyDated \/ Calculate

SpecDated == Init /\ [][NextDated]_vars

(***************************************************************************)
(* The tab on tables whose products include two that differ in their       *)
(* package size only, so that they share their line of the pivot.          *)
(***************************************************************************)
PivotProducts == {<<1, 1, 1, 1>>, <<1, 1, 2, 1>>, <<2, 1, 1, 1>>}

PivotDates == {<<2020, 12, 21>>, <<2021, 1, 4>>}

AddDemandPivot ==
    /\ pc = "input"
    /\ Cardinality(df_demand) + Cardinality(df_supply) < MaxRows + 1
    /\ \E k \in PivotProducts, d \in PivotDates :
           df_demand' = df_demand \cup
               {[pt_code |-> k[1], product_name |-> k[2],
                 package_size |-> k[3], standard_uom |-> k[4],
                 etd |-> d, demand_quantity |-> 1]}
    /\ UNCHANGED <<df_supply, period_type, pc, all_periods, gap_df,
                   show_shortage_only, gap_df_shown, pivot_gap,
                   inv_df, sales_df, top_customers,
                   df_summary>>

AddSupplyPivot ==
    /\ pc = "input"
    /\ Cardinality(df_demand) + Cardinality(df_supply) < MaxRows + 1
    /\ \E k \in PivotProducts, d \in PivotDates :
           df_supply' = df_supply \cup
               {[pt_code |-> k[1], product_name |-> k[2],
                 package_size |-> k[3], standard_uom |-> k[4],
                 date_ref |-> d, quantity |-> 1]}
    /\ UNCHANGED <<df_demand, period_type, pc, all_periods, gap_df,
                   show_shortage_only, gap_df_shown, pivot_gap,
                   inv_df, sales_df, top_customers,
                   df_summary>>

NextPivot == AddDemandPivot \/ AddSupplyPivot \/ Calculate \/ ShowDetails

SpecPivot == Init /\ [][NextPivot]_vars

(***************************************************************************)
(* The dashboard fills an invoice table and a salesperson's sales table    *)
(* and asks for the top customers of one of them.                          *)
(***************************************************************************)
AddInvoice ==
    /\ top_customers = NotCalled
    /\ Cardinality(inv_df) + Cardinality(sales_df) < MaxRows + 1
    /\ \E c \in Customers, g \in GpValues :
           inv_df' = inv_df \cup {[customer |-> c, invoiced_gross_profit_usd |-> g]}
    /\ UNCHANGED <<df_demand, df_supply, period_type, pc, all_periods, gap_df,
                   show_shortage_only, gap_df_shown, pivot_gap,
                   sales_df, top_customers,
                   df_summary>>

AddSale ==
    /\ top_customers = NotCalled
    /\ Cardinality(inv_df) + Cardinality(sales_df) < MaxRows + 1
    /\ \E c \in Customers, g \in GpValues :
           sales_df' = sales_df \cup {[customer |-> c, gross_profit_by_split_usd |-> g]}
    /\ UNCHANGED <<df_demand, df_supply, period_type, pc, all_periods, gap_df,
                   show_shortage_only, gap_df_shown, pivot_gap,
                   inv_df, top_customers,
                   df_summary>>

PrepareTopCustomers ==
    /\ top_customers = NotCalled
    /\ \E top_percent \in TopPercents :
           \E rows \in prepare_top_customers_by_gp(inv_df, top_percent) :
               top_customers' = [called      |-> "prepare_top_customers_by_gp",
                                 top_percent |-> top_percent,
                                 rows        |-> rows]
    /\ UNCHANGED <<df_demand, df_supply, period_type, pc, all_periods, gap_df,
                   show_shortage_only, gap_df_shown, pivot_gap,
                   inv_df, sales_df,
                   df_summary>>

PrepareSalespersonTopCustomers ==
    /\ top_customers = NotCalled
    /\ \E top_percent \in TopPercents :
           \E rows \in prepare_salesperson_top_customers_by_gp(sales_df, top_percent) :
               top_customers' = [called      |-> "prepare_salesperson_top_customers_by_gp",
                                 top_percent |-> top_percent,
                                 rows        |-> rows]
    /\ UNCHANGED <<df_demand, df_supply, period_type, pc, all_periods, gap_df,
                   show_shortage_only, gap_df_shown, pivot_gap,
                   inv_df, sales_df,
                   df_summary>>

NextTopCustomers ==
    AddInvoice \/ AddSale \/ PrepareTopCustomers \/ PrepareSalespersonTopCustomers

SpecTopCustomers == Init /\ [][NextTopCustomers]_vars

(***************************************************************************)
(* The demand tab and the supply tab label the dates of the same tables    *)
(* for their grouped summaries.                                            *)
(***************************************************************************)
ShowGroupedDemandSummary ==
    /\ pc = "input"
    /\ df_summary = NoSummary
    /\ \E period \in PeriodTypes :
           df_summary' = [tab    |-> "demand",
                          period |-> period,
                          rows   |-> {[date   |-> r.etd,
                                       period |-> demand_tab_period(r.etd, period)]
                                      : r \in df_demand}]
    /\ UNCHANGED <<df_demand, df_supply, period_type, pc, all_periods, gap_df,
                   show_shortage_only, gap_df_shown, pivot_gap,
                   inv_df, sales_df, top_customers>>

ShowGroupedSupplySummary ==
    /\ pc = "input"
    /\ df_summary = NoSummary
    /\ \E period \in PeriodTypes :
           df_summary' = [tab    |-> "supply",
                          period |-> period,
                          rows   |-> {[date   |-> r.date_ref,
                                       period |-> supply_tab_period(r.date_ref, period)]
                                      : r \in df_supply}]
    /\ UNCHANGED <<df_demand, df_supply, period_type, pc, all_periods, gap_df,
                   show_shortage_only, gap_df_shown, pivot_gap,
                   inv_df, sales_df, top_customers>>

NextTabs ==
    \/ AddDemandDated \/ AddSupplyDated
    \/ ShowGroupedDemandSummary \/ ShowGroupedSupplySummary

SpecTabs == Init /\ [][NextTabs]_vars

TypeOK ==
    /\ df_demand \subseteq DemandRows
    /\ df_supply \subseteq SupplyRows
    /\ period_type \in PeriodTypes
    /\ pc \in {"input", "returned", "shown", "raised"}
    /\ show_shortage_only \in BOOLEAN

(***************************************************************************)
(* Vocabulary of the properties.                                           *)
(***************************************************************************)
\* the engine has returned its table
Returned == pc \in {"returned", "shown", "raised"}

Rows == {gap_df[i] : i \in 1..Len(gap_df)}

RowKey(row) == <<row.pt_code, row.product_name, row.package_size, row.standard_uom>>

AxisLabels == {all_periods[i] : i \in 1..Len(all_periods)}

\* the non-null dates of the input records
InputDates == ({r.etd : r \in df_demand} \cup {r.date_ref : r \in df_supply}) \ {NaT}

\* every input record has a date
NoNullDates ==
    (\A r \in df_demand : r.etd # NaT) /\ (\A r \in df_supply : r.date_ref # NaT)

\* the input dates bucketed into a label
DatesOf(label) == {d \in InputDates : convert_to_period(d, period_type) = label}

\* the labels that denote a calendar period
DatedLabels == {convert_to_period(d, period_type) : d \in InputDates}

\* the period of label a lies before the period of label b
ChronoBefore(a, b) ==
    /\ a \in DatedLabels /\ b \in DatedLabels
    /\ \A x \in DatesOf(a), y \in DatesOf(b) : ToOrdinal(x) < ToOrdinal(y)

\* a and b are neighbours in the chronological order of the axis periods
ChronoAdjacent(a, b) ==
    /\ a \in AxisLabels /\ b \in AxisLabels
    /\ ChronoBefore(a, b)
    /\ ~ \E c \in AxisLabels : ChronoBefore(a, c) /\ ChronoBefore(c, b)

\* the (ISO week-year, ISO week) of a Weekly label
IsoOf(label) == IsoCalendar(CHOOSE d \in DatesOf(label) : TRUE)

\* the demand records of a full product key bucketed into a period
DemandRecordsOf(key, period) ==
    {r \in df_demand : ProductKey(r) = key
                       /\ convert_to_period(r.etd, period_type) = period}

SupplyRecordsOf(key, period) ==
    {r \in df_supply : ProductKey(r) = key
                       /\ convert_to_period(r.date_ref, period_type) = period}

DemandQty == [r \in df_demand |-> r.demand_quantity]

SupplyQty == [r \in df_supply |-> r.quantity]

\* the product keys and the periods of the records that have a period
BucketedKeys ==
    {ProductKey(r) : r \in {r \in df_demand : convert_to_period(r.etd, period_type) # NaN}}
    \cup {ProductKey(r) : r \in {r \in df_supply :
                                    convert_to_period(r.date_ref, period_type) # NaN}}

BucketedPeriods ==
    ({convert_to_period(r.etd, period_type) : r \in df_demand}
     \cup {convert_to_period(r.date_ref, period_type) : r \in df_supply}) \ {NaN}

\* a label that get_period_datetime can turn into a date
Parseable(label, ptype) ==
    IF ptype = "Weekly"
    THEN ParseWeekly(label).ok
         /\ StrptimeAccepts(ParseWeekly(label).year, ParseWeekly(label).week)
    ELSE IF ptype = "Monthly" THEN ParseMonthly(label).ok
    ELSE ParseDaily(label).ok

(***************************************************************************)
(* Supporting facts about the scan, along the axis as the code sorted it:  *)
(* each row begins with the surplus of the row before it on the axis, and  *)
(* the first row of the axis begins empty.                                 *)
(***************************************************************************)
RowOf(key, period) ==
    CHOOSE row \in Rows : RowKey(row) = key /\ row.period = period

CarryForwardAlongAxis ==
    Returned =>
        \A key \in BucketedKeys, i \in 1..Len(all_periods) :
            RowOf(key, all_periods[i]).begin_inventory =
                IF i = 1 THEN 0
                ELSE LET g == RowOf(key, all_periods[i - 1]).gap_quantity
                     IN  IF g > 0 THEN g ELSE 0

(***************************************************************************)
(* C1: for every product and every pair of chronologically adjacent        *)
(* periods (p, p+1) of the axis, begin_inventory at p+1 is                 *)
(* max(0, gap_quantity at p).  Stated as claimed; it fails when the axis   *)
(* is out of chronological order (C3).                                     *)
(***************************************************************************)
C1_CarryForwardBetweenChronologicalNeighbours ==
    Returned =>
        \A r1 \in Rows, r2 \in Rows :
            (RowKey(r1) = RowKey(r2) /\ ChronoAdjacent(r1.period, r2.period))
            => r2.begin_inventory =
                   (IF r1.gap_quantity > 0 THEN r1.gap_quantity ELSE 0)

(***************************************************************************)
(* C2: in every row total_demand_qty is the sum of demand_quantity over    *)
(* the demand records of the row's full product key in the row's period,   *)
(* and supply_in_period the like sum of supply; records of other product   *)
(* keys add nothing.  Stated as claimed, for inputs without null dates     *)
(* (C4 is about those).                                                    *)
(***************************************************************************)
C2_RowSumsAreOfTheFullProductKey ==
    (Returned /\ NoNullDates) =>
        \A row \in {r \in Rows : r.period \in DatedLabels} :
            /\ row.total_demand_qty =
                   SumOf(DemandRecordsOf(RowKey(row), row.period), DemandQty)
            /\ row.supply_in_period =
                   SumOf(SupplyRecordsOf(RowKey(row), row.period), SupplyQty)

(***************************************************************************)
(* C3: with Weekly granularity the axis is in ascending (ISO week-year,    *)
(* ISO week) order, also across the last week of a year and week 1 of the  *)
(* next.  Stated as claimed.                                               *)
(***************************************************************************)
C3_WeeklyAxisInIsoYearWeekOrder ==
    (Returned /\ period_type = "Weekly") =>
        \A i \in 1..Len(all_periods), j \in 1..Len(all_periods) :
            (i < j /\ all_periods[i] \in DatedLabels /\ all_periods[j] \in DatedLabels)
            => LET a == IsoOf(all_periods[i])
                   b == IsoOf(all_periods[j])
               IN  a.year < b.year \/ (a.year = b.year /\ a.week < b.week)

(***************************************************************************)
(* C4: a record whose date is null adds no label to the axis and no        *)
(* quantity to any row, under every granularity.  Stated as claimed: the   *)
(* axis holds only labels of dated records, and every row carries the      *)
(* quantities that the tables without their null-dated records give.       *)
(***************************************************************************)
C4_NullDatesContributeNothing ==
    Returned =>
        LET dg == demand_grouped({r \in df_demand : r.etd # NaT}, period_type)
            sg == supply_grouped({r \in df_supply : r.date_ref # NaT}, period_type)
        IN  /\ AxisLabels \subseteq DatedLabels
            /\ \A row \in Rows :
                   /\ row.total_demand_qty = DemandIn(dg, RowKey(row), row.period)
                   /\ row.supply_in_period = SupplyIn(sg, RowKey(row), row.period)

(***************************************************************************)
(* C5: the engine returns no table when a label of the axis cannot be      *)
(* parsed into a sort key: every label of the axis of a returned table is  *)
(* parseable.  Stated as claimed.                                          *)
(***************************************************************************)
C5_NoTableWithUnparseableLabel ==
    Returned => \A label \in AxisLabels : Parseable(label, period_type)

(***************************************************************************)
(* C6: for every product the row of the chronologically earliest period    *)
(* of the axis has begin_inventory 0.  Stated as claimed; it fails when    *)
(* the axis is out of chronological order (C3).                            *)
(***************************************************************************)
C6_EarliestPeriodBeginsEmpty ==
    Returned =>
        \A row \in Rows :
            (/\ row.period \in DatedLabels
             /\ ~ \E c \in AxisLabels : ChronoBefore(c, row.period))
            => row.begin_inventory = 0

(***************************************************************************)
(* C7: every row has total_available = begin_inventory + supply_in_period  *)
(* and gap_quantity = total_available - total_demand_qty.                  *)
(***************************************************************************)
C7_Conservation ==
    Returned =>
        \A row \in Rows :
            /\ row.total_available = row.begin_inventory + row.supply_in_period
            /\ row.gap_quantity = row.total_available - row.total_demand_qty

\* a row with carried inventory, supply and demand all at work
C7_Witness ==
    /\ Returned
    /\ \E row \in Rows :
           /\ row.begin_inventory > 0
           /\ row.total_demand_qty > 0
           /\ row.gap_quantity # row.supply_in_period - row.total_demand_qty

(***************************************************************************)
(* C8: for every product key the table has exactly one row for each        *)
(* period of the global axis, the union of the periods of all products'    *)
(* demand and supply, also where the product has no demand and no supply;  *)
(* the table has (product keys) x (axis periods) rows.                     *)
(***************************************************************************)
C8_OneRowPerProductAndAxisPeriod ==
    Returned =>
        /\ AxisLabels = BucketedPeriods
        /\ Len(all_periods) = Cardinality(BucketedPeriods)
        /\ \A key \in BucketedKeys, period \in BucketedPeriods :
               Cardinality({i \in 1..Len(gap_df) :
                               RowKey(gap_df[i]) = key /\ gap_df[i].period = period}) = 1
        /\ Len(gap_df) = Cardinality(BucketedKeys) * Cardinality(BucketedPeriods)

\* two products over two periods, one row without demand or supply
C8_Witness ==
    /\ Returned
    /\ Cardinality(BucketedKeys) = 2
    /\ Cardinality(BucketedPeriods) = 2
    /\ \E row \in Rows :
           /\ row.total_demand_qty = 0
           /\ row.supply_in_period = 0
           /\ DemandRecordsOf(RowKey(row), row.period) = {}
           /\ SupplyRecordsOf(RowKey(row), row.period) = {}

(***************************************************************************)
(* C9: fulfillment_rate_percent is 100 * total_available /                 *)
(* total_demand_qty when total_demand_qty > 0, not capped at 100, and      *)
(* exactly 100 when total_demand_qty = 0.                                  *)
(***************************************************************************)
C9_FulfillmentRate ==
    Returned =>
        \A row \in Rows :
            /\ row.total_demand_qty > 0 =>
                   /\ row.fulfillment_rate_percent[2] > 0
                   /\ row.fulfillment_rate_percent[1] * row.total_demand_qty
                          = 100 * row.total_available * row.fulfillment_rate_percent[2]
            /\ row.total_demand_qty = 0 => row.fulfillment_rate_percent = <<100, 1>>

\* a rate above 100, and a row with supply and no demand
C9_Witness ==
    /\ Returned
    /\ \E row \in Rows :
           /\ row.total_demand_qty > 0
           /\ row.fulfillment_rate_percent = <<200, 1>>
    /\ \E row \in Rows :
           /\ row.total_demand_qty = 0
           /\ row.total_available > 0
           /\ row.fulfillment_rate_percent = <<100, 1>>

(***************************************************************************)
(* C10: fulfillment_status is Fulfilled if and only if gap_quantity >= 0,  *)
(* and Shortage otherwise.                                                 *)
(***************************************************************************)
C10_StatusFollowsGap ==
    Returned =>
        \A row \in Rows :
            /\ row.fulfillment_status \in {"Fullfilled", "Shortage"}
            /\ row.fulfillment_status = "Fullfilled" <=> row.gap_quantity >= 0

\* a row whose demand is met exactly: its gap is 0 and it is Fulfilled
C10_Witness ==
    /\ Returned
    /\ \E row \in Rows :
           /\ row.gap_quantity = 0
           /\ row.total_demand_qty > 0
           /\ row.fulfillment_status = "Fullfilled"

(***************************************************************************)
(* C11: begin_inventory is >= 0 in every row, whatever the quantities of   *)
(* the input: a shortage is never carried into a later period as negative  *)
(* inventory.  Checked under SpecAnyQty, whose quantities have any sign.   *)
(***************************************************************************)
C11_BeginInventoryNeverNegative ==
    Returned => \A row \in Rows : row.begin_inventory >= 0

\* a row left short by a negative supply, followed on the axis by a row
\* that begins empty
C11_Witness ==
    /\ Returned
    /\ \E i \in 1..(Len(gap_df) - 1) :
           /\ RowKey(gap_df[i]) = RowKey(gap_df[i + 1])
           /\ gap_df[i].supply_in_period < 0
           /\ gap_df[i].gap_quantity < 0
           /\ gap_df[i + 1].begin_inventory = 0

(***************************************************************************)
(* C12: the rows of one product key do not change when the quantities of   *)
(* the records of the other product keys change while all dates stay the   *)
(* same, and the rows of a product computed on its own are its rows in     *)
(* the table.  Stated as claimed: the returned rows of every key are       *)
(* compared with the rows the engine gives, over the same axis, for every  *)
(* choice of the other keys' quantities.                                   *)
(***************************************************************************)
\* the rows of a table that belong to one product key, in table order
RowsFor(table, key) == SelectSeq(table, LAMBDA row : RowKey(row) = key)

\* the demand tables that differ from df_demand only in the quantities of
\* the records of the keys other than key
DemandRequantified(key) ==
    LET others == {r \in df_demand : ProductKey(r) # key}
    IN  {{r \in df_demand : ProductKey(r) = key}
         \cup {[r EXCEPT !.demand_quantity = f[r]] : r \in others}
         : f \in [others -> Quantities]}

SupplyRequantified(key) ==
    LET others == {r \in df_supply : ProductKey(r) # key}
    IN  {{r \in df_supply : ProductKey(r) = key}
         \cup {[r EXCEPT !.quantity = f[r]] : r \in others}
         : f \in [others -> Quantities]}

C12_ProductsAreIndependent ==
    (Returned /\ NoNullDates) =>
        \A key \in BucketedKeys :
            /\ \A d2 \in DemandRequantified(key), s2 \in SupplyRequantified(key) :
                   LET dg == demand_grouped(d2, period_type)
                       sg == supply_grouped(s2, period_type)
                   IN  RowsFor(ScanKeys(all_keys(dg, sg), 1, all_periods, dg, sg), key)
                           = RowsFor(gap_df, key)
            /\ LET dg == demand_grouped(df_demand, period_type)
                   sg == supply_grouped(df_supply, period_type)
               IN  ScanPeriods(key, all_periods, 1, 0, dg, sg) = RowsFor(gap_df, key)

(***************************************************************************)
(* C13: two invocations on equal demand records, supply records and        *)
(* granularity return the same rows with equal values in every field,      *)
(* whatever the order in which the set of period labels is enumerated      *)
(* before the stable sort.  Stated as claimed: the returned table is       *)
(* compared, as a set of rows, with the table of every other enumeration.  *)
(***************************************************************************)
\* the tables a second invocation on the same tables and granularity can return
OtherInvocations ==
    LET dg == demand_grouped(df_demand, period_type)
        sg == supply_grouped(df_supply, period_type)
    IN  {ScanKeys(all_keys(dg, sg), 1, axis, dg, sg) :
             axis \in SortPeriods(all_periods_raw(dg, sg), period_type)}

C13_Deterministic ==
    Returned =>
        \A other \in OtherInvocations :
            {other[i] : i \in 1..Len(other)} = Rows

(***************************************************************************)
(* C14: with Monthly granularity the axis is in (year, month) order and    *)
(* with Daily granularity in calendar-date order: of any two labels of     *)
(* the axis the one of the earlier month or day comes first.               *)
(***************************************************************************)
C14_MonthlyAndDailyAxisChronological ==
    (Returned /\ period_type \in {"Monthly", "Daily"}) =>
        /\ AxisLabels = DatedLabels
        /\ \A i, j \in 1..Len(all_periods) :
               i < j => ChronoBefore(all_periods[i], all_periods[j])

\* a Monthly axis across a year end, where the later label has the month
\* earlier in the year, and a Daily axis from September into October
C14_Witness ==
    /\ Returned
    /\ Len(all_periods) >= 2
    /\ \/ /\ period_type = "Monthly"
          /\ \E x \in DatesOf(all_periods[1]), y \in DatesOf(all_periods[2]) :
                 x[1] < y[1] /\ x[2] > y[2]
          /\ ChronoBefore(all_periods[1], all_periods[2])
       \/ /\ period_type = "Daily"
          /\ \E x \in DatesOf(all_periods[1]), y \in DatesOf(all_periods[2]) :
                 x[2] < y[2] /\ x[3] > y[3]
          /\ ChronoBefore(all_periods[1], all_periods[2])

(***************************************************************************)
(* C15: two non-null dates get the same label exactly when they lie in     *)
(* the same bucket of the granularity: the same day for Daily, the same    *)
(* ISO week for Weekly (the label carries the ISO week-year), the same     *)
(* month of the same year for Monthly; demand dates and supply dates are   *)
(* bucketed alike, so a demand record and a supply record meet in one row  *)
(* exactly when their dates lie in the same bucket.                        *)
(***************************************************************************)
\* the Monday of the week of a date (ordinal 1 is a Monday)
MondayOf(d) == ToOrdinal(d) - ((ToOrdinal(d) + 6) % 7)

\* the ISO week-year of a date: the calendar year of the Thursday of its week
IsoWeekYearOf(d) ==
    CHOOSE y \in (d[1] - 1)..(d[1] + 1) :
        /\ ToOrdinal(<<y, 1, 1>>) <= MondayOf(d) + 3
        /\ MondayOf(d) + 3 <= ToOrdinal(<<y, 12, 31>>)

SameBucket(x, y, ptype) ==
    IF ptype = "Daily" THEN x = y
    ELSE IF ptype = "Weekly" THEN MondayOf(x) = MondayOf(y)
    ELSE x[1] = y[1] /\ x[2] = y[2]

C15_SameLabelIffSameBucket ==
    Returned =>
        /\ \A x, y \in InputDates :
               (convert_to_period(x, period_type) = convert_to_period(y, period_type))
                   <=> SameBucket(x, y, period_type)
        /\ period_type = "Weekly" =>
               \A x \in InputDates :
                   ParseWeekly(convert_to_period(x, period_type)).year = IsoWeekYearOf(x)
        /\ \A r \in df_demand, t \in df_supply :
               (r.etd # NaT /\ t.date_ref # NaT /\ ProductKey(r) = ProductKey(t)) =>
                   (SameBucket(r.etd, t.date_ref, period_type)
                        <=> \E row \in Rows :
                                /\ row.period = convert_to_period(r.etd, period_type)
                                /\ row.period = convert_to_period(t.date_ref, period_type)
                                /\ row.total_demand_qty > 0
                                /\ row.supply_in_period > 0)

\* a demand date and a supply date of different calendar years in one ISO
\* week, met in one row
C15_Witness ==
    /\ Returned
    /\ period_type = "Weekly"
    /\ \E r \in df_demand, t \in df_supply :
           /\ r.etd # NaT /\ t.date_ref # NaT
           /\ r.etd[1] # t.date_ref[1]
           /\ \E row \in Rows :
                  /\ row.period = convert_to_period(r.etd, period_type)
                  /\ row.period = convert_to_period(t.date_ref, period_type)
                  /\ row.total_demand_qty > 0
                  /\ row.supply_in_period > 0

(***************************************************************************)
(* C16: when neither table has a row the engine returns an empty table     *)
(* and raises no error, for every granularity: the call can be made with   *)
(* each granularity, and what it returns has no row.                       *)
(***************************************************************************)
C16_EmptyInputsGiveEmptyTable ==
    (df_demand = {} /\ df_supply = {}) =>
        /\ pc = "input" => \A ptype \in PeriodTypes : ENABLED CalculateAs(ptype)
        /\ Returned => (gap_df = <<>> /\ all_periods = <<>>)

C16_Witness ==
    /\ pc = "returned"
    /\ df_demand = {} /\ df_supply = {}
    /\ period_type = "Weekly"
    /\ gap_df = <<>>

(***************************************************************************)
(* C17: when the engine returns an empty table the tab completes without   *)
(* raising, for both settings of the checkbox.  Stated as claimed.         *)
(***************************************************************************)
C17_EmptyTableShownWithoutError ==
    (Returned /\ Len(gap_df) = 0) => pc # "raised"

(***************************************************************************)
(* C18: the shortage filter acts on the table the engine returned for the  *)
(* complete inputs: with the checkbox set the detail table holds exactly   *)
(* the engine rows with gap_quantity < 0, unaltered and in engine order;   *)
(* with it cleared the detail table is the engine table.                   *)
(***************************************************************************)
RowsShown == {gap_df_shown[i] : i \in 1..Len(gap_df_shown)}

C18_ShortageFilterAfterEngine ==
    pc = "shown" =>
        /\ gap_df \in OtherInvocations
        /\ IF show_shortage_only
           THEN /\ RowsShown = {row \in Rows : row.gap_quantity < 0}
                /\ Len(gap_df_shown) = Cardinality(RowsShown)
                /\ \A i, j \in 1..Len(gap_df_shown) :
                       i < j => \E a, b \in 1..Len(gap_df) :
                                    /\ a < b
                                    /\ gap_df[a] = gap_df_shown[i]
                                    /\ gap_df[b] = gap_df_shown[j]
           ELSE gap_df_shown = gap_df

\* the filter drops a row with surplus and keeps a shortage row that began
\* with the inventory carried from the dropped row
C18_Witness ==
    /\ pc = "shown"
    /\ show_shortage_only
    /\ \E i \in 1..(Len(gap_df) - 1) :
           /\ RowKey(gap_df[i]) = RowKey(gap_df[i + 1])
           /\ gap_df[i].gap_quantity > 0
           /\ gap_df[i] \notin RowsShown
           /\ gap_df[i + 1].begin_inventory = gap_df[i].gap_quantity
           /\ gap_df[i + 1].gap_quantity < 0
           /\ gap_df[i + 1] \in RowsShown

(***************************************************************************)
(* C19, as claimed: every product has a row for every period of the        *)
(* granularity from the earliest to the latest bucketed period, also for   *)
(* the periods in which no record of any product exists.                   *)
(***************************************************************************)
\* the days from the earliest to the latest input date
ObservedRange ==
    LET lo == CHOOSE x \in InputDates : \A y \in InputDates : ToOrdinal(x) <= ToOrdinal(y)
        hi == CHOOSE x \in InputDates : \A y \in InputDates : ToOrdinal(y) <= ToOrdinal(x)
    IN  {d \in UNION {{<<y, m, n>> : n \in 1..DaysInMonth(y, m)} :
                          y \in lo[1]..hi[1], m \in 1..12} :
            ToOrdinal(lo) <= ToOrdinal(d) /\ ToOrdinal(d) <= ToOrdinal(hi)}

C19_RowForEveryPeriodOfObservedRange ==
    (Returned /\ NoNullDates /\ InputDates # {}) =>
        \A key \in BucketedKeys, d \in ObservedRange :
            \E row \in Rows :
                RowKey(row) = key /\ row.period = convert_to_period(d, period_type)

(***************************************************************************)
(* C19, amended: every product has a row for every period in which some    *)
(* demand or supply record of any product exists, and for no other         *)
(* period: the periods of a product's rows are the labels of the input     *)
(* records, so there are no more of them than there are records.           *)
(***************************************************************************)
C19_RowsForObservedPeriodsOnly ==
    Returned =>
        \A key \in BucketedKeys :
            LET periods == {row.period : row \in {r \in Rows : RowKey(r) = key}}
            IN  /\ \A r \in df_demand :
                       convert_to_period(r.etd, period_type) # NaN
                           => convert_to_period(r.etd, period_type) \in periods
                /\ \A t \in df_supply :
                       convert_to_period(t.date_ref, period_type) # NaN
                           => convert_to_period(t.date_ref, period_type) \in periods
                /\ \A p \in periods :
                       \/ \E r \in df_demand : convert_to_period(r.etd, period_type) = p
                       \/ \E t \in df_supply : convert_to_period(t.date_ref, period_type) = p
                /\ Cardinality(periods) <= Cardinality(df_demand) + Cardinality(df_supply)

\* a product has a row in a period where only the other product has a
\* record, and the range holds a period that has no row
C19_Witness ==
    /\ Returned
    /\ NoNullDates
    /\ \E row \in Rows :
           /\ DemandRecordsOf(RowKey(row), row.period) = {}
           /\ SupplyRecordsOf(RowKey(row), row.period) = {}
    /\ \E d \in ObservedRange :
           \A row \in Rows : row.period # convert_to_period(d, period_type)

(***************************************************************************)
(* C20: the call leaves the caller's two tables as they were (same rows,   *)
(* same columns, same values, no period column) and touches nothing but    *)
(* its result: the table, computed from the arguments alone.               *)
(***************************************************************************)
C20_ArgumentsUnchanged ==
    [][(pc = "input" /\ pc' = "returned") =>
           /\ df_demand' = df_demand
           /\ df_supply' = df_supply
           /\ \A r \in df_demand' \cup df_supply' : "period" \notin DOMAIN r
           /\ UNCHANGED <<show_shortage_only, gap_df_shown, pivot_gap,
                   inv_df, sales_df, top_customers,
                   df_summary>>
           /\ \E ptype \in PeriodTypes :
                  LET dg == demand_grouped(df_demand, ptype)
                      sg == supply_grouped(df_supply, ptype)
                  IN  \E axis \in SortPeriods(all_periods_raw(dg, sg), ptype) :
                          gap_df' = ScanKeys(all_keys(dg, sg), 1, axis, dg, sg)]_vars

C20_Witness ==
    /\ pc = "returned"
    /\ df_demand # {} /\ df_supply # {}
    /\ \A r \in df_demand \cup df_supply : "period" \notin DOMAIN r
    /\ Len(gap_df) > 0

(***************************************************************************)
(* C21: in the returned table the rows of one product key are contiguous   *)
(* and in ascending chronological order of their periods.  Stated as       *)
(* claimed; the order fails when the axis is out of chronological order    *)
(* (C3).                                                                   *)
(***************************************************************************)
C21_RowsOfAProductContiguousAndChronological ==
    (Returned /\ NoNullDates) =>
        \A i, j \in 1..Len(gap_df) :
            (i < j /\ RowKey(gap_df[i]) = RowKey(gap_df[j])) =>
                /\ \A k \in i..j : RowKey(gap_df[k]) = RowKey(gap_df[i])
                /\ ChronoBefore(gap_df[i].period, gap_df[j].period)

(***************************************************************************)
(* C23: for a product key with demand records and no supply record, every  *)
(* row of the key has begin_inventory = 0, total_available = 0 and         *)
(* gap_quantity = -total_demand_qty, and has status Shortage exactly in    *)
(* the periods where its demand is > 0.  Stated as claimed; it fails when  *)
(* another key shares the pt_code (C2).                                    *)
(***************************************************************************)
RowsOfKey(key) == {row \in Rows : RowKey(row) = key}

C23_DemandWithoutSupply ==
    (Returned /\ NoNullDates) =>
        \A key \in BucketedKeys :
            (/\ \E r \in df_demand : ProductKey(r) = key
             /\ \A t \in df_supply : ProductKey(t) # key) =>
                \A row \in RowsOfKey(key) :
                    /\ row.begin_inventory = 0
                    /\ row.total_available = 0
                    /\ row.gap_quantity = 0 - row.total_demand_qty
                    /\ (row.fulfillment_status = "Shortage")
                           <=> (SumOf(DemandRecordsOf(key, row.period), DemandQty) > 0)

(***************************************************************************)
(* C24: for a product key with supply records and no demand record, every  *)
(* row has gap_quantity = total_available, rate 100 and status Fulfilled,  *)
(* and total_available is the sum of the key's supply over the axis        *)
(* periods up to and including the row's period (so it never decreases     *)
(* along the axis).  Stated as claimed; it fails when another key shares   *)
(* the pt_code (C2).                                                       *)
(***************************************************************************)
AxisIndex(label) == CHOOSE i \in 1..Len(all_periods) : all_periods[i] = label

\* the supply records of a key in the axis periods up to and including one
SupplyRecordsUpTo(key, period) ==
    {t \in df_supply :
        /\ ProductKey(t) = key
        /\ convert_to_period(t.date_ref, period_type) \in AxisLabels
        /\ AxisIndex(convert_to_period(t.date_ref, period_type)) <= AxisIndex(period)}

C24_SupplyWithoutDemand ==
    (Returned /\ NoNullDates) =>
        \A key \in BucketedKeys :
            (/\ \E t \in df_supply : ProductKey(t) = key
             /\ \A r \in df_demand : ProductKey(r) # key) =>
                \A row \in RowsOfKey(key) :
                    /\ row.gap_quantity = row.total_available
                    /\ row.fulfillment_rate_percent = <<100, 1>>
                    /\ row.fulfillment_status = "Fullfilled"
                    /\ row.total_available =
                           SumOf(SupplyRecordsUpTo(key, row.period), SupplyQty)

(***************************************************************************)
(* C22: with supply quantities >= 0, in every row total_available >= 0     *)
(* and gap_quantity >= -total_demand_qty: the shortage of a period is at   *)
(* most the period's own demand, whatever was unmet before.                *)
(***************************************************************************)
SupplyNonNegative == \A t \in df_supply : t.quantity >= 0

DemandNonNegative == \A r \in df_demand : r.demand_quantity >= 0

C22_ShortageAtMostOwnDemand ==
    (Returned /\ SupplyNonNegative) =>
        \A row \in Rows :
            /\ row.total_available >= 0
            /\ row.gap_quantity >= 0 - row.total_demand_qty

\* a shortage is followed by a period whose shortage is its own demand
C22_Witness ==
    /\ Returned
    /\ SupplyNonNegative
    /\ \E i \in 1..(Len(gap_df) - 1) :
           /\ RowKey(gap_df[i]) = RowKey(gap_df[i + 1])
           /\ gap_df[i].gap_quantity < 0
           /\ gap_df[i + 1].total_demand_qty > 0
           /\ gap_df[i + 1].gap_quantity = 0 - gap_df[i + 1].total_demand_qty

(***************************************************************************)
(* C28: with quantities >= 0, the gap of a row is at least the product's   *)
(* cumulative supply minus its cumulative demand over the axis periods up  *)
(* to and including the row's period, and is equal to it when no earlier   *)
(* period of the product is in Shortage.                                   *)
(***************************************************************************)
\* the rows of the product of row i up to and including row i
RowsUpTo(i) == {m \in 1..i : RowKey(gap_df[m]) = RowKey(gap_df[i])}

CumulativeNet(i) ==
    SumOf(RowsUpTo(i), [m \in 1..Len(gap_df) |-> gap_df[m].supply_in_period])
    - SumOf(RowsUpTo(i), [m \in 1..Len(gap_df) |-> gap_df[m].total_demand_qty])

C28_GapAtLeastCumulativeNet ==
    (Returned /\ SupplyNonNegative /\ DemandNonNegative) =>
        \A i \in 1..Len(gap_df) :
            /\ gap_df[i].gap_quantity >= CumulativeNet(i)
            /\ (\A m \in RowsUpTo(i) \ {i} : gap_df[m].fulfillment_status # "Shortage")
                   => gap_df[i].gap_quantity = CumulativeNet(i)

\* a surplus carried into a later row, and a row after a forgiven shortage
C28_Witness ==
    /\ Returned
    /\ SupplyNonNegative /\ DemandNonNegative
    /\ \E i \in 1..Len(gap_df) :
           /\ \E m \in RowsUpTo(i) \ {i} : gap_df[m].fulfillment_status = "Shortage"
           /\ gap_df[i].supply_in_period > 0
           /\ gap_df[i].gap_quantity > CumulativeNet(i)

(***************************************************************************)
(* C30: in every row with total_demand_qty > 0 the status is Fulfilled     *)
(* exactly when fulfillment_rate_percent >= 100, which is exactly when     *)
(* total_available >= total_demand_qty.                                    *)
(***************************************************************************)
\* a rate <<numerator, denominator>> is at least 100
RateAtLeast100(rate) == rate[1] >= 100 * rate[2]

C30_StatusAgreesWithRate ==
    Returned =>
        \A row \in Rows :
            row.total_demand_qty > 0 =>
                /\ row.fulfillment_rate_percent[2] > 0
                /\ (row.fulfillment_status = "Fullfilled")
                       <=> RateAtLeast100(row.fulfillment_rate_percent)
                /\ RateAtLeast100(row.fulfillment_rate_percent)
                       <=> (row.total_available >= row.total_demand_qty)

\* a row that just meets its demand and a row that does not
C30_Witness ==
    /\ Returned
    /\ \E a, b \in Rows :
           /\ a.total_demand_qty > 0
           /\ a.gap_quantity = 0
           /\ a.fulfillment_rate_percent = <<100, 1>>
           /\ a.fulfillment_status = "Fullfilled"
           /\ b.total_demand_qty > 0
           /\ ~ RateAtLeast100(b.fulfillment_rate_percent)
           /\ b.fulfillment_status = "Shortage"

(***************************************************************************)
(* C25: every cell of the GAP pivot, at a (product, period) it shows, is   *)
(* the gap_quantity of the engine's row for that product and that period.  *)
(* Stated as claimed.                                                      *)
(***************************************************************************)
\* the number that a cell text denotes
CellValue(text) ==
    LET negative == Len(text) > 0 /\ text[1] = "-"
        body     == IF negative THEN Tail(text) ELSE text
        parts    == Split(body, ".")
        whole    == Remove(parts[1], ",")
    IN  [ok    |-> Len(parts) = 2 /\ IsDigits(whole) /\ parts[2] = <<"0">>,
         value |-> IF negative THEN 0 - ToInt(whole) ELSE ToInt(whole)]

C25_PivotCellIsEngineGap ==
    pc = "shown" =>
        \A c \in DOMAIN pivot_gap.cells :
            /\ CellValue(pivot_gap.cells[c]).ok
            /\ \E row \in Rows :
                   <<row.product_name, row.pt_code>> = c[1] /\ row.period = c[2]
            /\ \A row \in Rows :
                   (<<row.product_name, row.pt_code>> = c[1] /\ row.period = c[2])
                       => CellValue(pivot_gap.cells[c]).value = row.gap_quantity

(***************************************************************************)
(* C27: the period columns of the GAP pivot stand, from left to right, in  *)
(* the order in which the engine scanned those periods.  Stated as         *)
(* claimed; it fails when the engine's axis is out of order (C3).          *)
(***************************************************************************)
C27_PivotColumnsInAxisOrder ==
    pc = "shown" =>
        /\ \A i \in 1..Len(pivot_gap.period_cols) : pivot_gap.period_cols[i] \in AxisLabels
        /\ \A i, j \in 1..Len(pivot_gap.period_cols) :
               i < j => AxisIndex(pivot_gap.period_cols[i])
                            < AxisIndex(pivot_gap.period_cols[j])

(***************************************************************************)
(* C26: both functions return the customers in descending order of their   *)
(* total gross profit, cut after the first customer at which the           *)
(* cumulative share of the total gross profit is strictly greater than     *)
(* top_percent: no earlier customer reaches beyond top_percent, the last   *)
(* one does unless all customers are returned.  The share is the           *)
(* cumulative gross profit divided by the total gross profit.              *)
(***************************************************************************)
\* the table that the called function was given, as customer and profit
CalledTable ==
    IF top_customers.called = "prepare_top_customers_by_gp"
    THEN {<<r.customer, r.invoiced_gross_profit_usd>> : r \in inv_df}
    ELSE {<<r.customer, r.gross_profit_by_split_usd>> : r \in sales_df}

CalledCustomers == {r[1] : r \in CalledTable}

GrossProfitOf(c) ==
    LET lines == {r \in CalledTable : r[1] = c}
    IN  SumOf(lines, [r \in lines |-> r[2]])

TotalGrossProfit ==
    SumOf(CalledTable, [r \in CalledTable |-> r[2]])

\* the gross profit of the first i returned customers
ReturnedUpTo(i) ==
    SumOf(1..i, [j \in 1..Len(top_customers.rows) |-> top_customers.rows[j].GrossProfit])

\* cumulative / total > a / b, without division; over a total of 0 the
\* share of a positive amount is infinite and no other share is a number
ShareExceeds(cumulative, total, top_percent) ==
    IF total > 0 THEN cumulative * top_percent[2] > top_percent[1] * total
    ELSE IF total < 0 THEN cumulative * top_percent[2] < top_percent[1] * total
    ELSE cumulative > 0

C26_TopCustomersPrefix ==
    top_customers.called # "none" =>
        LET rows == top_customers.rows
            n    == Len(rows)
        IN  /\ \A i \in 1..n :
                   /\ rows[i].Customer \in CalledCustomers
                   /\ rows[i].GrossProfit = GrossProfitOf(rows[i].Customer)
            /\ \A i, j \in 1..n :
                   i < j => /\ rows[i].Customer # rows[j].Customer
                            /\ rows[i].GrossProfit >= rows[j].GrossProfit
            /\ \A c \in CalledCustomers \ {rows[i].Customer : i \in 1..n} :
                   \A i \in 1..n : rows[i].GrossProfit >= GrossProfitOf(c)
            /\ \A i \in 1..(n - 1) :
                   ~ ShareExceeds(ReturnedUpTo(i), TotalGrossProfit,
                                  top_customers.top_percent)
            /\ n < Cardinality(CalledCustomers) =>
                   /\ n >= 1
                   /\ ShareExceeds(ReturnedUpTo(n), TotalGrossProfit,
                                   top_customers.top_percent)

\* two of three customers are returned: the first stays below top_percent,
\* the second goes beyond it
C26_Witness ==
    /\ top_customers.called = "prepare_top_customers_by_gp"
    /\ TotalGrossProfit > 0
    /\ Cardinality(CalledCustomers) = 3
    /\ Len(top_customers.rows) = 2
    /\ ~ ShareExceeds(ReturnedUpTo(1), TotalGrossProfit, top_customers.top_percent)
    /\ ShareExceeds(ReturnedUpTo(2), TotalGrossProfit, top_customers.top_percent)

(***************************************************************************)
(* C29: for a non-null date and a granularity, the label of the grouped    *)
(* summary of the demand tab and of the supply tab is the label that the   *)
(* GAP engine's convert_to_period gives.  Stated as claimed.               *)
(***************************************************************************)
C29_OneLabelAcrossTabs ==
    \A row \in df_summary.rows :
        row.date # NaT => row.period = convert_to_period(row.date, df_summary.period)

====
